---- MODULE Spec2Model ----
(***************************************************************************)
(* Model of the client-side media pipeline of visionary-caption:           *)
(*   - services/audioService.ts : decode, decodeAudioData, playPCM and the  *)
(*     module-level slot activeAudioSource;                                 *)
(*   - services/videoService.ts : extractFramesFromVideo;                   *)
(*   - services/geminiService.ts : analyzeVisual, translateResult,          *)
(*     generateSpeech, askVisionary;                                        *)
(*   - App.tsx : the handlers of the component (analysis, uploads, camera,  *)
(*     live monitoring, capture sequence, speech, chat);                    *)
(*   - the API handler (unnamed/part_000).                                  *)
(* The browser is modelled as an event loop: a handler runs to its next     *)
(* await, continuations of awaits (microtasks) run in FIFO order before any *)
(* further platform event (task) is dispatched.                             *)
(***************************************************************************)
EXTENDS Integers, Sequences, FiniteSets, TLC

VARIABLES
    \* ---- audioService.ts ----
    activeAudioSource,  \* the module-level slot: 0 is null, c is the source of call c
    nextCall,           \* number of playPCM calls made so far
    callState,          \* per call: position of the async function playPCM
    decodeResult,       \* per call: settled promise of decodeAudioData it awaits
    sourceState,        \* per call: state of the AudioBufferSourceNode it created
    sourceBuffer,       \* per call: source.buffer (samples as int16 numerators of x/32768)
    microtasks,         \* FIFO queue of calls suspended at `await decodeAudioData`
    stoppedBy,          \* history: the call whose activeAudioSource.stop() stopped the source
    sawPlaying,         \* history: the playing source the slot referred to when the call began
    payloadOf,          \* history: the base64 text each call was given
    ctxFailed,          \* history: the calls whose AudioContext constructor threw
    \* ---- videoService.ts ----
    videoPhase,         \* position of extractFramesFromVideo / onloadedmetadata
    promiseState,       \* state of the promise extractFramesFromVideo returned
    resolvedFrames,     \* the value the promise was resolved with
    duration,           \* video.duration once metadata has loaded (seconds)
    timestamps,         \* local `timestamps` (tenths of a second)
    frames,             \* local `frames`
    currentTime,        \* video.currentTime as last assigned (tenths of a second)
    shownPosition,      \* position of the picture the element displays (tenths)
    seeking,            \* a seek has been requested and 'seeked' has not fired yet
    urlRevoked,         \* URL.revokeObjectURL(video.src) has been called
    errorFired,         \* history: the element has emitted an error event
    eventLog,           \* history: seek requests, 'seeked' events and captures, in order
    \* ---- audioService.ts, decodeAudioData on its own ----
    pcmSource,          \* the sample value the payload was encoded from, or NoSource
    pcmData,            \* the Uint8Array handed to decodeAudioData
    pcmBuffer           \* the settled result of decodeAudioData, once it has run

audioVars == <<activeAudioSource, nextCall, callState, decodeResult, sourceState,
               sourceBuffer, microtasks, stoppedBy, sawPlaying, payloadOf, ctxFailed>>
videoVars == <<videoPhase, promiseState, resolvedFrames, duration, timestamps, frames,
               currentTime, shownPosition, seeking, urlRevoked, errorFired, eventLog>>
VARIABLES
    \* ---- geminiService.ts, analyzeVisual ----
    analysisState,      \* position of analyzeVisual: idle, pending, returned, rejected
    analysisRequest,    \* the generateContent request it sent, once sent
    analysisResult      \* the value its promise resolved with, once resolved

VARIABLES
    \* ---- unnamed/part_000, the API handler ----
    apiRequest,         \* per request: <<>> or <<[method, body]>> once it arrived
    apiPhase,           \* per request: position of the async function handler
    apiModelCalls,      \* per request: number of generateContent calls it made
    apiModelOutcome,    \* per request: <<>> or the settled generateContent promise
    apiResponses        \* per request: the responses sent with res.status().json()

VARIABLES
    \* ---- App.tsx, handleSpeech ----
    isSpeaking,         \* the React state flag
    speechPhase,        \* position of the accepted handleSpeech call
    speechCalls,        \* history: number of handleSpeech calls made
    speechIgnored,      \* history: calls that returned at the isSpeaking test
    speechRequests,     \* history: number of generateSpeech requests issued
    playRequests,       \* history: number of playPCM calls issued
    speechErrors        \* history: what console.error was given, in order

VARIABLES
    \* ---- App.tsx, the chat ----
    chatInput,          \* the React state chatInput, a sequence of characters
    chatMessages,       \* the React state chatMessages
    isChatLoading,      \* the React state flag
    chatPending,        \* <<>> or the userMsg of the handleChatSubmit call in flight
    chatSubmits,        \* history: number of handleChatSubmit calls made
    chatAccepted,       \* history: number of those that passed the test of line 129
    chatNotes           \* history: number of messages appended by handleAnalysis

VARIABLES
    \* ---- App.tsx, input modes, camera and analysis ----
    inputMode,          \* the React state inputMode
    selectedLang,       \* the React state selectedLang
    loading,            \* the React state loading
    result,             \* the React state result (NoResult is null)
    streams,            \* per getUserMedia call: pending, live, stopped or rejected
    cameraRequests,     \* number of getUserMedia calls made
    srcObject,          \* videoRef.current.srcObject: a stream, 0 when null or unmounted
    isLiveMonitoring,   \* the React state flag
    liveIntervalRef,    \* liveIntervalRef.current: a timer id, 0 when null
    liveTimers,         \* the interval timers set by toggleLiveMonitoring and not cleared
    timersCreated,      \* number of interval timers created
    tickLang,           \* selectedLang in the closure the interval timer calls
    analyses,           \* per handleAnalysis call: its position and what it was given
    nextAnalysis,       \* number of handleAnalysis calls made
    fileRead,           \* onFileUpload suspended at fileToBase64: its selectedLang, or "none"
    videoRead,          \* onVideoUpload suspended at extractFramesFromVideo, likewise
    seqPhase,           \* captureLiveVideoSequence: idle, waiting (in a 1 s wait), threw
    seqFrames,          \* its local `frames`: number of frames pushed
    seqLang             \* selectedLang in its closure

pcmVars == <<pcmSource, pcmData, pcmBuffer>>
analyzeVars == <<analysisState, analysisRequest, analysisResult>>
apiVars == <<apiRequest, apiPhase, apiModelCalls, apiModelOutcome, apiResponses>>
serviceSide == <<audioVars, videoVars, pcmVars, analyzeVars>>
speechVars == <<isSpeaking, speechPhase, speechCalls, speechIgnored, speechRequests,
                playRequests, speechErrors>>
chatVars == <<chatInput, chatMessages, isChatLoading, chatPending, chatSubmits,
              chatAccepted, chatNotes>>
uiVars == <<inputMode, selectedLang, loading, result, streams, cameraRequests, srcObject,
            isLiveMonitoring, liveIntervalRef, liveTimers, timersCreated, tickLang,
            analyses, nextAnalysis, fileRead, videoRead, seqPhase, seqFrames, seqLang>>
\* The chat state handleAnalysis does not touch (it appends its note to the log).
chatRest == <<chatInput, isChatLoading, chatPending, chatSubmits, chatAccepted>>
appSide == <<apiVars, speechVars, chatVars, uiVars>>
vars == <<serviceSide, appSide>>

\* What each component leaves alone.
notAudio == <<videoVars, pcmVars, analyzeVars, appSide>>
notVideo == <<audioVars, pcmVars, analyzeVars, appSide>>
notPcm == <<audioVars, videoVars, analyzeVars, appSide>>
notAnalyze == <<audioVars, videoVars, pcmVars, appSide>>
notApi == <<serviceSide, speechVars, chatVars, uiVars>>
notSpeech == <<serviceSide, apiVars, chatVars, uiVars>>
notChat == <<serviceSide, apiVars, speechVars, uiVars>>
notUi == <<serviceSide, apiVars, speechVars, chatRest>>

\* ------------------------------------------------------------------ bounds
MaxCalls == 3
MaxDuration == 12
MaxPcmBytes == 4
MaxInputFrames == 3
GridSteps == 500
MaxRequests == 3
MaxSpeechCalls == 4
MaxChatSubmits == 3
MaxChatNotes == 1
MaxAnalyses == 3
MaxCameraRequests == 2
MaxTimers == 2

Calls == 1..MaxCalls

\* ------------------------------------------------------- base64 and PCM
\* A base64 text is a sequence of symbols: 0..63 are the alphabet's sextets,
\* Pad is '=', Illegal is any character outside the alphabet.
Pad == 64
Illegal == 65

RECURSIVE StripPad(_, _)
StripPad(s, n) ==
    IF n > 0 /\ Len(s) > 0 /\ s[Len(s)] = Pad
    THEN StripPad(SubSeq(s, 1, Len(s) - 1), n - 1)
    ELSE s

\* atob: forgiving-base64 decode. Result [ok, bytes].
Atob(s) ==
    LET t == IF Len(s) % 4 = 0 THEN StripPad(s, 2) ELSE s
        valid == Len(t) % 4 # 1 /\ \A i \in 1..Len(t) : t[i] < Pad
        n == (Len(t) * 6) \div 8
        sx(i) == IF i <= Len(t) THEN t[i] ELSE 0
        byte(k) ==
            LET g == 4 * (k \div 3)
                j == k % 3
            IN  IF j = 0 THEN sx(g + 1) * 4 + sx(g + 2) \div 16
                ELSE IF j = 1 THEN (sx(g + 2) % 16) * 16 + sx(g + 3) \div 4
                ELSE (sx(g + 3) % 4) * 64 + sx(g + 4)
    IN  IF valid
        THEN [ok |-> TRUE, bytes |-> [k \in 1..n |-> byte(k - 1)]]
        ELSE [ok |-> FALSE, bytes |-> <<>>]

\* decode(base64): atob then one byte per character; throws when atob throws.
decode(base64) == Atob(base64)

\* Faulty variant: the two bytes of a sample are read in the other order.
Int16AtBigEndian(data, i) ==
    LET u == 256 * data[2 * i - 1] + data[2 * i]
    IN  IF u >= 32768 THEN u - 65536 ELSE u

\* Faulty variant: the sample is read as an unsigned 16-bit value.
Int16AtUnsigned(data, i) == data[2 * i - 1] + 256 * data[2 * i]

\* new Int16Array(data.buffer): signed 16-bit little-endian view, element i (1-based).
Int16At(data, i) ==
    LET u == data[2 * i - 1] + 256 * data[2 * i]
    IN  IF u >= 32768 THEN u - 65536 ELSE u

\* Faulty variant: a trailing odd byte is dropped instead of being refused.
Int16ViewTruncating(data) == TRUE

\* new Int16Array(data.buffer) throws a RangeError unless the byte length is a
\* multiple of 2.
Int16ViewOk(data) == Len(data) % 2 = 0

\* Faulty variant: the division takes the channel count to be 2.
FrameCountHalved(data) == (Len(data) \div 2) \div 2

\* frameCount = dataInt16.length / numChannels (line 19).
NumChannels == 1
FrameCount(data) == (Len(data) \div 2) \div NumChannels

\* Faulty variant: a buffer of zero frames is accepted.
CreateBufferAny(frameCount) == TRUE

\* ctx.createBuffer(numChannels, frameCount, sampleRate) throws a
\* NotSupportedError for a frame count of zero.
CreateBufferOk(frameCount) == frameCount >= 1

\* Faulty variant: the divisor is the largest positive sample.
NormalizeBy32767(sample) == [num |-> sample, den |-> 32767]

\* dataInt16[...] / 32768.0 (line 25), kept as the exact fraction num / den.
Normalize(sample) == [num |-> sample, den |-> 32768]

\* decodeAudioData(data, ctx, 24000, numChannels) for numChannels = 1. The result is
\* the settled promise of the async function: rejected when the Int16Array view
\* cannot be built or createBuffer refuses the frame count; otherwise the buffer's
\* channels, sample i of channel ch being dataInt16[i * numChannels + ch] / 32768.
decodeAudioData(data) ==
    IF ~Int16ViewOk(data)
    THEN [ok |-> FALSE, channelData |-> <<>>]
    ELSE LET frameCount == FrameCount(data)
         IN  IF ~CreateBufferOk(frameCount)
             THEN [ok |-> FALSE, channelData |-> <<>>]
             ELSE [ok |-> TRUE,
                   channelData |->
                       [ch \in 1..NumChannels |->
                           [i \in 1..frameCount |->
                               Normalize(Int16At(data, (i - 1) * NumChannels + ch))]]]

\* Payloads handed to playPCM: "AIA=" (one sample), "AID/fw==" (two samples),
\* the empty text, "AQID" (3 bytes, odd) and a text with an illegal character.
AudioPayloads ==
    { <<0, 8, 0, Pad>>,                       \* bytes 00 80
      <<0, 8, 3, 63, 31, 48, Pad, Pad>>,      \* bytes 00 80 FF 7F
      << >>,                                  \* no bytes
      <<0, 16, 8, 3>>,                        \* bytes 01 02 03
      <<0, Illegal, 0, 0>> }                  \* not base64

NoBuffer == [ok |-> FALSE, channelData |-> <<>>]

\* ------------------------------------------------------------ audio player
InitAudio ==
    /\ activeAudioSource = 0
    /\ nextCall = 0
    /\ callState = [c \in Calls |-> "uncalled"]
    /\ decodeResult = [c \in Calls |-> NoBuffer]
    /\ sourceState = [c \in Calls |-> "none"]
    /\ sourceBuffer = [c \in Calls |-> <<>>]
    /\ microtasks = <<>>
    /\ stoppedBy = [c \in Calls |-> 0]
    /\ sawPlaying = [c \in Calls |-> 0]
    /\ payloadOf = [c \in Calls |-> <<Illegal>>]
    /\ ctxFailed = {}

\* activeAudioSource.stop() issued by call c: a playing source stops (its 'ended'
\* event is then queued by the platform); on a source that already finished or was
\* already stopped the call has no further effect.
StopSource(states, a) ==
    IF a # 0 /\ states[a] = "playing"
    THEN [states EXCEPT ![a] = "stopped"]
    ELSE states

\* Faulty variant: the previous source is left running.
StopActiveSkipped(states) == states

\* The slot test and stop of playPCM (lines 37-39).
StopActive(states) == StopSource(states, activeAudioSource)

\* playPCM(base64Audio), from the call to its first suspension: the context is
\* built (ctxOk = FALSE: the constructor throws), the active source is stopped,
\* the payload is decoded and decodeAudioData is invoked; the call then suspends
\* at the await, or has already thrown.
PlayPCMCall(base64Audio, ctxOk) ==
    /\ nextCall < MaxCalls
    /\ LET c == nextCall + 1
           bytes == decode(base64Audio)
       IN  /\ nextCall' = c
           /\ payloadOf' = [payloadOf EXCEPT ![c] = base64Audio]
           /\ ctxFailed' = IF ctxOk THEN ctxFailed ELSE ctxFailed \cup {c}
           /\ IF ~ctxOk
              THEN /\ callState' = [callState EXCEPT ![c] = "rejected"]
                   /\ UNCHANGED <<sourceState, stoppedBy, sawPlaying, decodeResult,
                                  microtasks>>
              ELSE /\ sourceState' = StopActive(sourceState)
                   /\ stoppedBy' =
                        IF sourceState' # sourceState
                        THEN [stoppedBy EXCEPT ![activeAudioSource] = c]
                        ELSE stoppedBy
                   /\ sawPlaying' =
                        IF activeAudioSource # 0
                           /\ sourceState[activeAudioSource] = "playing"
                        THEN [sawPlaying EXCEPT ![c] = activeAudioSource]
                        ELSE sawPlaying
                   /\ IF ~bytes.ok
                      THEN /\ callState' = [callState EXCEPT ![c] = "rejected"]
                           /\ UNCHANGED <<decodeResult, microtasks>>
                      ELSE /\ callState' = [callState EXCEPT ![c] = "awaiting"]
                           /\ decodeResult' =
                                [decodeResult EXCEPT ![c] = decodeAudioData(bytes.bytes)]
                           /\ microtasks' = Append(microtasks, c)
    /\ UNCHANGED <<activeAudioSource, sourceBuffer>>

\* The continuation of `await decodeAudioData(...)`: the await throws when the
\* decoding promise was rejected; otherwise the source is created, started and
\* stored in the slot, and the promise whose executor installs onended is returned.
PlayPCMResume ==
    /\ microtasks # <<>>
    /\ LET c == Head(microtasks)
       IN  /\ microtasks' = Tail(microtasks)
           /\ IF decodeResult[c].ok
              THEN /\ sourceBuffer' = [sourceBuffer EXCEPT ![c] = decodeResult[c].channelData]
                   /\ sourceState' = [sourceState EXCEPT ![c] = "playing"]
                   /\ activeAudioSource' = c
                   /\ callState' = [callState EXCEPT ![c] = "pending"]
              ELSE /\ callState' = [callState EXCEPT ![c] = "rejected"]
                   /\ UNCHANGED <<sourceBuffer, sourceState, activeAudioSource>>
           /\ decodeResult' = [decodeResult EXCEPT ![c] = NoBuffer]
    /\ UNCHANGED <<nextCall, stoppedBy, sawPlaying, payloadOf, ctxFailed>>

\* The platform reaches the end of the buffer of a playing source; its 'ended'
\* event is queued.
PlaybackFinishes(c) ==
    /\ sourceState[c] = "playing"
    /\ sourceState' = [sourceState EXCEPT ![c] = "finished"]
    /\ UNCHANGED <<activeAudioSource, nextCall, callState, decodeResult, sourceBuffer,
                   microtasks, stoppedBy, sawPlaying, payloadOf, ctxFailed>>

\* Faulty variant: the promise of a source that was stopped is left pending.
onendedNaturalOnly(c) ==
    /\ microtasks = <<>>
    /\ sourceState[c] \in {"finished", "stopped"}
    /\ sourceState' = [sourceState EXCEPT ![c] = "ended"]
    /\ activeAudioSource' = 0
    /\ callState' = IF sourceState[c] = "finished"
                    THEN [callState EXCEPT ![c] = "resolved"]
                    ELSE callState
    /\ UNCHANGED <<nextCall, decodeResult, sourceBuffer, microtasks, stoppedBy, sawPlaying,
                   payloadOf, ctxFailed>>

\* Faulty variant: the handler resolves the promise but leaves the slot as it is.
onendedKeepsSlot(c) ==
    /\ microtasks = <<>>
    /\ sourceState[c] \in {"finished", "stopped"}
    /\ sourceState' = [sourceState EXCEPT ![c] = "ended"]
    /\ callState' = [callState EXCEPT ![c] = "resolved"]
    /\ UNCHANGED <<activeAudioSource, nextCall, decodeResult, sourceBuffer, microtasks,
                   stoppedBy, sawPlaying, payloadOf, ctxFailed>>

\* source.onended (lines 51-54), dispatched as a task for a source that finished
\* or was stopped: clears the slot and resolves the call's promise.
onended(c) ==
    /\ microtasks = <<>>
    /\ sourceState[c] \in {"finished", "stopped"}
    /\ sourceState' = [sourceState EXCEPT ![c] = "ended"]
    /\ activeAudioSource' = 0
    /\ callState' = [callState EXCEPT ![c] = "resolved"]
    /\ UNCHANGED <<nextCall, decodeResult, sourceBuffer, microtasks, stoppedBy, sawPlaying,
                   payloadOf, ctxFailed>>

NextAudio ==
    \/ \E p \in AudioPayloads, ok \in BOOLEAN : PlayPCMCall(p, ok) /\ UNCHANGED notAudio
    \/ PlayPCMResume /\ UNCHANGED notAudio
    \/ \E c \in Calls : PlaybackFinishes(c) /\ UNCHANGED notAudio
    \/ \E c \in Calls : onended(c) /\ UNCHANGED notAudio

\* ------------------------------------------------------------ frame sampler
\* Durations are whole seconds; NonFinite stands for a duration that is not a
\* finite number (Infinity for an unbounded stream, NaN). Positions are kept in
\* tenths of a second, so that duration * 0.2 is the integer 2 * duration.
NonFinite == -1
Durations == (0..MaxDuration) \cup {NonFinite}

\* duration * 0.2, duration * 0.5, duration * 0.8 (tenths of a second); a product
\* with a non-finite duration is not finite.
Scale(d, tenths) == IF d = NonFinite THEN NonFinite ELSE d * tenths
\* Faulty variant: the last two fractions are exchanged.
TimestampsSwapped(d) == <<Scale(d, 2), Scale(d, 8), Scale(d, 5)>>

Timestamps(d) == <<Scale(d, 2), Scale(d, 5), Scale(d, 8)>>

\* canvas.toDataURL('image/jpeg', 0.8) of the picture drawn from the element, and
\* the part after the comma that the loop keeps.
ToDataURL(picture) == <<"data:image/jpeg;base64", picture>>
FramePayload(picture) == ToDataURL(picture)[2]

\* Faulty variant: a later resolve or reject replaces an earlier settlement.
SettleOverwrite(state, to) == to

\* resolve(value) / reject(e) on the promise extractFramesFromVideo returned: only
\* a pending promise settles.
Settle(state, to) == IF state = "pending" THEN to ELSE state

InitVideo ==
    /\ videoPhase = "loading"
    /\ promiseState = "pending"
    /\ resolvedFrames = <<>>
    /\ duration = 0
    /\ timestamps = <<>>
    /\ frames = <<>>
    /\ currentTime = 0
    /\ shownPosition = 0
    /\ seeking = FALSE
    /\ urlRevoked = FALSE
    /\ errorFired = FALSE
    /\ eventLog = <<>>

\* Faulty variant: the loop waits for 'seeked' without having assigned currentTime.
RequestSeekForgotten(ts, log) ==
    /\ videoPhase' = "capturing"
    /\ eventLog' = log
    /\ seeking' = FALSE
    /\ UNCHANGED currentTime

\* `video.currentTime = ts` followed by the await on a fresh 'seeked' promise
\* (lines 18-21), as the next-state values of the seek-related variables. The
\* assignment throws a TypeError for a value that is not finite: the async handler
\* stops there and nothing settles the outer promise.
RequestSeek(ts, log) ==
    IF ts = NonFinite
    THEN /\ videoPhase' = "threw"
         /\ eventLog' = log
         /\ UNCHANGED <<currentTime, seeking>>
    ELSE /\ videoPhase' = "capturing"
         /\ currentTime' = ts
         /\ seeking' = TRUE
         /\ eventLog' = Append(log, <<"seek", ts>>)

\* video.onloadedmetadata (lines 9-21), up to the first await.
onloadedmetadata(d) ==
    /\ videoPhase = "loading"
    /\ ~errorFired
    /\ duration' = d
    /\ timestamps' = Timestamps(d)
    /\ frames' = <<>>
    /\ RequestSeek(Timestamps(d)[1], eventLog)
    /\ UNCHANGED <<promiseState, resolvedFrames, shownPosition, urlRevoked, errorFired>>

\* Faulty variant: the picture is read without waiting for 'seeked', so it is
\* still the one of the previous position.
CapturedBeforeSeeked(shownAfterSeek) == shownPosition

\* The picture read by drawImage (line 25) once the loop resumes after 'seeked'.
CapturedPicture(shownAfterSeek) == shownAfterSeek

\* Faulty variant: the loop leaves one timestamp out.
MoreTimestampsShort(fs) == Len(fs) < Len(timestamps) - 1

\* for (const ts of timestamps): another timestamp follows the frames taken so far.
MoreTimestamps(fs) == Len(fs) < Len(timestamps)

\* Faulty variant: the next seek is requested before the frame of the settled
\* one has been drawn and encoded.
onseekedSeekAhead ==
    /\ videoPhase = "capturing"
    /\ seeking
    /\ LET shown == currentTime
           fs == Append(frames, FramePayload(CapturedPicture(shown)))
       IN  /\ shownPosition' = shown
           /\ frames' = fs
           /\ IF MoreTimestamps(fs)
              THEN /\ videoPhase' = "capturing"
                   /\ currentTime' = timestamps[Len(fs) + 1]
                   /\ seeking' = TRUE
                   /\ eventLog' = eventLog \o << <<"seeked", shown>>,
                                                 <<"seek", timestamps[Len(fs) + 1]>>,
                                                 <<"capture", CapturedPicture(shown)>> >>
                   /\ UNCHANGED <<urlRevoked, promiseState, resolvedFrames>>
              ELSE /\ seeking' = FALSE
                   /\ videoPhase' = "done"
                   /\ eventLog' = eventLog \o << <<"seeked", shown>>,
                                                 <<"capture", CapturedPicture(shown)>> >>
                   /\ urlRevoked' = TRUE
                   /\ promiseState' = Settle(promiseState, "resolved")
                   /\ resolvedFrames' = IF promiseState = "pending" THEN fs ELSE resolvedFrames
                   /\ UNCHANGED currentTime
    /\ UNCHANGED <<duration, timestamps, errorFired>>

\* The 'seeked' event of the outstanding seek: the element now displays the
\* requested position, the awaited promise resolves and the loop body runs on
\* (lines 23-26), then either requests the next seek or, after the last
\* timestamp, revokes the object URL and resolves with the frames (lines 29-30).
onseeked ==
    /\ videoPhase = "capturing"
    /\ seeking
    /\ LET shown == currentTime
           fs == Append(frames, FramePayload(CapturedPicture(shown)))
           log == eventLog \o << <<"seeked", shown>>, <<"capture", CapturedPicture(shown)>> >>
       IN  /\ shownPosition' = shown
           /\ frames' = fs
           /\ IF MoreTimestamps(fs)
              THEN /\ RequestSeek(timestamps[Len(fs) + 1], log)
                   /\ UNCHANGED <<urlRevoked, promiseState, resolvedFrames>>
              ELSE /\ seeking' = FALSE
                   /\ videoPhase' = "done"
                   /\ eventLog' = log
                   /\ urlRevoked' = TRUE
                   /\ promiseState' = Settle(promiseState, "resolved")
                   /\ resolvedFrames' = IF promiseState = "pending" THEN fs ELSE resolvedFrames
                   /\ UNCHANGED currentTime
    /\ UNCHANGED <<duration, timestamps, errorFired>>

\* video.onerror (line 33): reject(e).
onerror ==
    /\ ~errorFired
    /\ errorFired' = TRUE
    /\ promiseState' = Settle(promiseState, "rejected")
    /\ UNCHANGED <<videoPhase, resolvedFrames, duration, timestamps, frames, currentTime,
                   shownPosition, seeking, urlRevoked, eventLog>>

NextVideo ==
    \/ \E d \in Durations : onloadedmetadata(d) /\ UNCHANGED notVideo
    \/ onseeked /\ UNCHANGED notVideo
    \/ onerror /\ UNCHANGED notVideo

\* ------------------------------------------------- decodeAudioData on its own
\* The inputs: every pair of bytes (each 16-bit sample), every sequence of up to
\* MaxPcmBytes bytes over a few byte values, and the 16-bit PCM encodings of the
\* sample values k / GridSteps, k in -GridSteps..GridSteps.
NoSource == GridSteps + 1
ByteValues == {0, 1, 127, 128, 255}
RECURSIVE ByteSeqs(_)
ByteSeqs(n) ==
    IF n = 0 THEN {<<>>}
    ELSE LET shorter == ByteSeqs(n - 1)
         IN  shorter \cup {Append(b, v) : b \in {x \in shorter : Len(x) = n - 1},
                                          v \in ByteValues}

\* A float sample num / den written as 16-bit PCM: x * 32768 rounded to the
\* nearest integer, clamped to the int16 range, two's complement, low byte first.
EncodePCM(num, den) ==
    LET r == (2 * num * 32768 + den) \div (2 * den)
        q == IF r > 32767 THEN 32767 ELSE IF r < -32768 THEN -32768 ELSE r
        u == IF q < 0 THEN q + 65536 ELSE q
    IN  <<u % 256, u \div 256>>

InitPcm ==
    /\ pcmBuffer = <<>>
    /\ \/ /\ pcmSource = NoSource
          /\ pcmData \in {<<lo, hi>> : lo \in 0..255, hi \in 0..255} \cup ByteSeqs(MaxPcmBytes)
       \/ /\ pcmSource \in (-GridSteps)..GridSteps
          /\ pcmData = EncodePCM(pcmSource, GridSteps)

\* One run of decodeAudioData on the payload.
DecodeStep ==
    /\ pcmBuffer = <<>>
    /\ pcmBuffer' = <<decodeAudioData(pcmData)>>
    /\ UNCHANGED <<pcmSource, pcmData>>

NextPcm == DecodeStep /\ UNCHANGED notPcm

\* ------------------------------------------------------------ analyzeVisual
\* The number of variants the prompt asks for (line 23) and the bounds of the
\* response schema's `variants` array (lines 36-37).
PromptVariants == 5
VariantsMinItems == 5
VariantsMaxItems == 5

\* VisualInput values: an image (data is one base64 string) or video frames
\* (data is an array of base64 strings).
VisualInputs ==
    {[type |-> "image", isArray |-> FALSE, data |-> <<"jpeg">>]}
        \cup {[type |-> "video_frames", isArray |-> TRUE, data |-> [i \in 1..n |-> "jpeg"]] :
                n \in 1..MaxInputFrames}

\* visualParts (lines 14-16): one inline part per array element, or one part.
VisualParts(input) ==
    IF input.isArray
    THEN [i \in 1..Len(input.data) |-> [inlineData |-> input.data[i], mimeType |-> "image/jpeg"]]
    ELSE <<[inlineData |-> input.data[1], mimeType |-> "image/jpeg"]>>

\* The request of lines 18-65, as far as the variants are concerned.
AnalysisRequest(input, isMedical) ==
    [parts |-> Len(VisualParts(input)) + 1,
     medical |-> isMedical,
     promptVariants |-> PromptVariants,
     minItems |-> VariantsMinItems,
     maxItems |-> VariantsMaxItems]

\* The response texts: the empty text, or a JSON object that conforms to the
\* request's schema, with one caption per variant.
Captions == {"plain", "vivid"}
RECURSIVE CaptionSeqs(_)
CaptionSeqs(n) ==
    IF n = 0 THEN {<<>>}
    ELSE {Append(v, cap) : v \in CaptionSeqs(n - 1), cap \in Captions}
ConformingResults(request) ==
    UNION {{[empty |-> FALSE, json |-> [hasVariants |-> TRUE, variants |-> v]] :
                v \in CaptionSeqs(n)} :
              n \in request.minItems..request.maxItems}
EmptyObject == [hasVariants |-> FALSE, variants |-> <<>>]
EmptyText == [empty |-> TRUE, json |-> EmptyObject]

\* What generateContent may answer to the request in flight.
ResponseTexts ==
    IF analysisState = "pending"
    THEN {EmptyText} \cup ConformingResults(analysisRequest[1])
    ELSE {}

\* JSON.parse(response.text || "{}") (line 67): the empty text parses as {}.
ParseResponse(text) == IF text.empty THEN EmptyObject ELSE text.json

InitAnalyze ==
    /\ analysisState = "idle"
    /\ analysisRequest = <<>>
    /\ analysisResult = <<>>

\* analyzeVisual(input, isMedical) up to the await of generateContent.
analyzeVisual(input, isMedical) ==
    /\ analysisState = "idle"
    /\ analysisState' = "pending"
    /\ analysisRequest' = <<AnalysisRequest(input, isMedical)>>
    /\ UNCHANGED analysisResult

\* generateContent resolves and analyzeVisual returns the parsed text.
AnalyzeReturns(text) ==
    /\ analysisState = "pending"
    /\ analysisState' = "returned"
    /\ analysisResult' = <<ParseResponse(text)>>
    /\ UNCHANGED analysisRequest

\* generateContent rejects (network, quota, key) and so does analyzeVisual.
AnalyzeRejects ==
    /\ analysisState = "pending"
    /\ analysisState' = "rejected"
    /\ UNCHANGED <<analysisRequest, analysisResult>>

NextAnalyze ==
    \/ \E input \in VisualInputs, m \in BOOLEAN :
          analyzeVisual(input, m) /\ UNCHANGED notAnalyze
    \/ \E text \in ResponseTexts :
          AnalyzeReturns(text) /\ UNCHANGED notAnalyze
    \/ AnalyzeRejects /\ UNCHANGED notAnalyze

\* decodeAudioData has not been given anything to decode on its own.
\* ------------------------------------------------ API handler (part_000)
Requests == 1..MaxRequests
Methods == {"GET", "POST", "DELETE"}
\* req.body: absent (destructuring it throws a TypeError) or an object.
Bodies == {"undefined", "object"}
ModelResponses == {[candidates |-> "a"], [candidates |-> "b"]}
\* error.message of what generateContent rejects with; "" is an empty message.
ErrorMessages == {"", "quota exceeded"}
BodyTypeError == "Cannot destructure property 'input' of 'req.body'"

\* Faulty variant: every method is let through.
MethodAllowedAny(method) == TRUE

\* The test of line 4, negated: req.method !== "POST" answers 405.
MethodAllowed(method) == method = "POST"

\* error.message || "Server error" (line 28).
ErrorBody(message) == IF message = "" THEN "Server error" ELSE message

Respond(r, status, json) ==
    apiResponses' = [apiResponses EXCEPT ![r] = Append(@, [status |-> status, json |-> json])]

InitApi ==
    /\ apiRequest = [r \in Requests |-> <<>>]
    /\ apiPhase = [r \in Requests |-> "none"]
    /\ apiModelCalls = [r \in Requests |-> 0]
    /\ apiModelOutcome = [r \in Requests |-> <<>>]
    /\ apiResponses = [r \in Requests |-> <<>>]

\* handler(req, res) up to its first await or its return.
handler(r, method, body) ==
    /\ apiPhase[r] = "none"
    /\ apiRequest' = [apiRequest EXCEPT ![r] = <<[method |-> method, body |-> body]>>]
    /\ IF ~MethodAllowed(method)
       THEN /\ Respond(r, 405, [error |-> "Method not allowed"])
            /\ apiPhase' = [apiPhase EXCEPT ![r] = "returned"]
            /\ UNCHANGED <<apiModelCalls, apiModelOutcome>>
       ELSE IF body = "undefined"
       THEN \* const { input, isMedical } = req.body throws inside the try
            /\ Respond(r, 500, [error |-> ErrorBody(BodyTypeError)])
            /\ apiPhase' = [apiPhase EXCEPT ![r] = "returned"]
            /\ UNCHANGED <<apiModelCalls, apiModelOutcome>>
       ELSE /\ apiModelCalls' = [apiModelCalls EXCEPT ![r] = @ + 1]
            /\ apiPhase' = [apiPhase EXCEPT ![r] = "awaiting"]
            /\ UNCHANGED <<apiModelOutcome, apiResponses>>

\* generateContent resolves: line 25.
ModelResolves(r, response) ==
    /\ apiPhase[r] = "awaiting"
    /\ apiModelOutcome' = [apiModelOutcome EXCEPT ![r] = <<[ok |-> TRUE, value |-> response]>>]
    /\ Respond(r, 200, response)
    /\ apiPhase' = [apiPhase EXCEPT ![r] = "returned"]
    /\ UNCHANGED <<apiRequest, apiModelCalls>>

\* generateContent rejects: the catch of lines 26-30.
ModelRejects(r, message) ==
    /\ apiPhase[r] = "awaiting"
    /\ apiModelOutcome' = [apiModelOutcome EXCEPT ![r] = <<[ok |-> FALSE, value |-> message]>>]
    /\ Respond(r, 500, [error |-> ErrorBody(message)])
    /\ apiPhase' = [apiPhase EXCEPT ![r] = "returned"]
    /\ UNCHANGED <<apiRequest, apiModelCalls>>

NextApi ==
    \/ \E r \in Requests, m \in Methods, b \in Bodies : handler(r, m, b) /\ UNCHANGED notApi
    \/ \E r \in Requests, resp \in ModelResponses : ModelResolves(r, resp) /\ UNCHANGED notApi
    \/ \E r \in Requests, msg \in ErrorMessages : ModelRejects(r, msg) /\ UNCHANGED notApi

\* ------------------------------------------------- App.tsx, handleSpeech
\* What generateSpeech can fail with: its own throw when the response holds no
\* audio (geminiService.ts line 102) or the rejected request.
SpeechFailures == {"No audio generated", "request failed"}
\* What playPCM can reject with: the payload does not decode, or no AudioContext.
PlaybackFailures == {"decode failed", "no AudioContext"}

InitSpeech ==
    /\ isSpeaking = FALSE
    /\ speechPhase = "idle"
    /\ speechCalls = 0
    /\ speechIgnored = 0
    /\ speechRequests = 0
    /\ playRequests = 0
    /\ speechErrors = <<>>

\* if (isSpeaking) return; (line 272)
SpeechGuard == isSpeaking

\* handleSpeech(text) up to its first await.
handleSpeech ==
    /\ speechCalls < MaxSpeechCalls
    /\ speechCalls' = speechCalls + 1
    /\ IF SpeechGuard
       THEN /\ speechIgnored' = speechIgnored + 1
            /\ UNCHANGED <<isSpeaking, speechPhase, speechRequests, playRequests, speechErrors>>
       ELSE /\ isSpeaking' = TRUE
            /\ speechRequests' = speechRequests + 1
            /\ speechPhase' = "generating"
            /\ UNCHANGED <<speechIgnored, playRequests, speechErrors>>

\* generateSpeech resolved: playPCM(pcm) is called and awaited (line 276).
SpeechGenerated ==
    /\ speechPhase = "generating"
    /\ playRequests' = playRequests + 1
    /\ speechPhase' = "playing"
    /\ UNCHANGED <<isSpeaking, speechCalls, speechIgnored, speechRequests, speechErrors>>

\* playPCM resolved: the finally block (line 280).
SpeechPlayed ==
    /\ speechPhase = "playing"
    /\ isSpeaking' = FALSE
    /\ speechPhase' = "idle"
    /\ UNCHANGED <<speechCalls, speechIgnored, speechRequests, playRequests, speechErrors>>

\* Faulty variant: the failure is logged but the flag is left set.
SpeechFailsFlagKept(error) ==
    /\ speechErrors' = Append(speechErrors, error)
    /\ speechPhase' = "idle"
    /\ UNCHANGED <<isSpeaking, speechCalls, speechIgnored, speechRequests, playRequests>>

\* The awaited call rejected: catch (line 278) and finally (line 280).
SpeechFails(error) ==
    /\ speechErrors' = Append(speechErrors, error)
    /\ isSpeaking' = FALSE
    /\ speechPhase' = "idle"
    /\ UNCHANGED <<speechCalls, speechIgnored, speechRequests, playRequests>>

GenerateSpeechFails(error) == speechPhase = "generating" /\ SpeechFails(error)
PlayPCMFails(error) == speechPhase = "playing" /\ SpeechFails(error)

NextSpeech ==
    \/ handleSpeech /\ UNCHANGED notSpeech
    \/ SpeechGenerated /\ UNCHANGED notSpeech
    \/ SpeechPlayed /\ UNCHANGED notSpeech
    \/ \E e \in SpeechFailures : GenerateSpeechFails(e) /\ UNCHANGED notSpeech
    \/ \E e \in PlaybackFailures : PlayPCMFails(e) /\ UNCHANGED notSpeech

\* ----------------------------------------------------- App.tsx, the chat
\* Texts are sequences of characters so that trim() is computed.
ChatInputs == {<<>>, <<" ">>, <<"w", "h", "y">>, <<" ", "h", "i">>}

RECURSIVE TrimStart(_)
TrimStart(text) ==
    IF text # <<>> /\ Head(text) = " " THEN TrimStart(Tail(text)) ELSE text
RECURSIVE TrimEnd(_)
TrimEnd(text) ==
    IF text # <<>> /\ text[Len(text)] = " "
    THEN TrimEnd(SubSeq(text, 1, Len(text) - 1))
    ELSE text
Trim(text) == TrimEnd(TrimStart(text))

Greeting == "Greetings! I am the Visionary Assistant."
AnalysisNote == "Analysis complete!"
Sorry == "I'm sorry, I couldn't process that request."
Trouble == "I'm having trouble connecting to my neural network. Please try again."
\* response.text of the chat request: absent or empty, or an answer.
ChatResponseTexts == {"", "an answer"}

\* askVisionary's return value: response.text || "I'm sorry, ..." (line 125).
askVisionary(text) == IF text = "" THEN Sorry ELSE text

\* A chat message; `re` is a history tag: the accepted submit it belongs to,
\* 0 for the greeting and for handleAnalysis's notes.
Message(role, text, re) == [role |-> role, text |-> text, re |-> re]

InitChat ==
    /\ chatInput = <<>>
    /\ chatMessages = <<Message("bot", Greeting, 0)>>
    /\ isChatLoading = FALSE
    /\ chatPending = <<>>
    /\ chatSubmits = 0
    /\ chatAccepted = 0
    /\ chatNotes = 0

\* onChange of the input: setChatInput(e.target.value).
TypeChat(text) ==
    /\ text # chatInput
    /\ chatInput' = text
    /\ UNCHANGED <<chatMessages, isChatLoading, chatPending, chatSubmits, chatAccepted, chatNotes>>

\* Faulty variant: a submit made while a request is in flight is accepted.
ChatSubmitRefusedBlankOnly == Trim(chatInput) = <<>>

\* !chatInput.trim() || isChatLoading (line 129).
ChatSubmitRefused == Trim(chatInput) = <<>> \/ isChatLoading

\* handleChatSubmit up to its await.
handleChatSubmit ==
    /\ chatSubmits < MaxChatSubmits
    /\ chatSubmits' = chatSubmits + 1
    /\ IF ChatSubmitRefused
       THEN UNCHANGED <<chatInput, chatMessages, isChatLoading, chatPending, chatAccepted, chatNotes>>
       ELSE /\ chatInput' = <<>>
            /\ chatAccepted' = chatAccepted + 1
            /\ chatMessages' = Append(chatMessages, Message("user", chatInput, chatAccepted + 1))
            /\ isChatLoading' = TRUE
            /\ chatPending' = Append(chatPending, chatAccepted + 1)
            /\ UNCHANGED chatNotes

\* askVisionary resolved: lines 137-138, then the finally.
ChatReplies(text) ==
    /\ chatPending # <<>>
    /\ chatMessages' = Append(chatMessages, Message("bot", askVisionary(text), Head(chatPending)))
    /\ isChatLoading' = FALSE
    /\ chatPending' = Tail(chatPending)
    /\ UNCHANGED <<chatInput, chatSubmits, chatAccepted, chatNotes>>

\* askVisionary rejected: the catch of lines 139-140, then the finally.
ChatFails ==
    /\ chatPending # <<>>
    /\ chatMessages' = Append(chatMessages, Message("bot", Trouble, Head(chatPending)))
    /\ isChatLoading' = FALSE
    /\ chatPending' = Tail(chatPending)
    /\ UNCHANGED <<chatInput, chatSubmits, chatAccepted, chatNotes>>

\* handleAnalysis stored a result: it appends its note (line 112).
AnalysisNoteAppended ==
    /\ chatNotes < MaxChatNotes
    /\ chatNotes' = chatNotes + 1
    /\ chatMessages' = Append(chatMessages, Message("bot", AnalysisNote, 0))
    /\ UNCHANGED <<chatInput, isChatLoading, chatPending, chatSubmits, chatAccepted>>

ChatSettles == (\E text \in ChatResponseTexts : ChatReplies(text)) \/ ChatFails

NextChat ==
    \/ \E text \in ChatInputs : TypeChat(text) /\ UNCHANGED notChat
    \/ handleChatSubmit /\ UNCHANGED notChat
    \/ \E text \in ChatResponseTexts : ChatReplies(text) /\ UNCHANGED notChat
    \/ ChatFails /\ UNCHANGED notChat
    \/ AnalysisNoteAppended /\ UNCHANGED notChat

\* ------------------------------- App.tsx, input modes, camera and analysis
InputModes == {"upload", "video", "camera", "live"}
\* The modes in which <video ref={videoRef}> and <canvas ref={canvasRef}> are
\* rendered (line 491); in the others both refs are null.
CameraModes == {"camera", "live"}
Mounted(mode) == mode \in CameraModes
Languages == {"en", "es"}
Analyses == 1..MaxAnalyses
Streams == 1..MaxCameraRequests
\* The loop bound of captureLiveVideoSequence (line 229) and the number of
\* frames extractFramesFromVideo resolves with.
SequenceFrames == 3
ExtractedFrames == 3

NoResult == [of |-> 0, lang |-> "none"]
\* What analyzeVisual returned for call k, and its translation.
Raw(k) == [of |-> k, lang |-> "en"]
Translated(r, lang) == [of |-> r.of, lang |-> lang]
NoAnalysis ==
    [phase |-> "none", silent |-> FALSE, lang |-> "none", type |-> "none", frames |-> 0,
     translateRequests |-> 0, stored |-> NoResult]

InitUi ==
    /\ inputMode = "upload"
    /\ selectedLang = "en"
    /\ loading = FALSE
    /\ result = NoResult
    /\ streams = [s \in Streams |-> "none"]
    /\ cameraRequests = 0
    /\ srcObject = 0
    /\ isLiveMonitoring = FALSE
    /\ liveIntervalRef = 0
    /\ liveTimers = {}
    /\ timersCreated = 0
    /\ tickLang = "en"
    /\ analyses = [k \in Analyses |-> NoAnalysis]
    /\ nextAnalysis = 0
    /\ fileRead = "none"
    /\ videoRead = "none"
    /\ seqPhase = "idle"
    /\ seqFrames = 0
    /\ seqLang = "en"

\* ---- stopCamera (lines 188-195), as functions of the state it is run in.
\* Faulty variant: the interval timer is left running.
ClearIntervalNot(timers, ref) == timers

\* if (liveIntervalRef.current) clearInterval(liveIntervalRef.current)
ClearInterval(timers, ref) == timers \ {ref}

\* if (videoRef.current?.srcObject) { tracks.forEach(t => t.stop()); ... }
\* `src` is 0 when the ref is null or the element has no stream.
StopTracks(st, src) == IF src # 0 THEN [st EXCEPT ![src] = "stopped"] ELSE st

\* stopCamera called from a handler: the element is the one now mounted, if any.
stopCamera ==
    /\ streams' = StopTracks(streams, srcObject)
    /\ srcObject' = 0
    /\ liveTimers' = ClearInterval(liveTimers, liveIntervalRef)
    /\ isLiveMonitoring' = FALSE
    /\ UNCHANGED <<liveIntervalRef, timersCreated, tickLang>>

\* setInputMode(mode) with mode # inputMode, and the effect of lines 265-269.
\* React commits the new tree first: leaving the camera modes unmounts the
\* <video> and sets videoRef.current to null, entering them mounts a new
\* element without a stream. Then the previous effect's cleanup runs
\* stopCamera, then the effect runs startCamera (a getUserMedia request) in the
\* camera modes and stopCamera otherwise.
SetInputMode(mode) ==
    LET kept == IF Mounted(inputMode) /\ Mounted(mode) THEN srcObject ELSE 0
        cleaned == StopTracks(streams, kept)
    IN  /\ inputMode' = mode
        /\ srcObject' = 0
        /\ liveTimers' = ClearInterval(liveTimers, liveIntervalRef)
        /\ isLiveMonitoring' = FALSE
        /\ IF Mounted(mode)
           THEN /\ cameraRequests < MaxCameraRequests
                /\ cameraRequests' = cameraRequests + 1
                /\ streams' = [cleaned EXCEPT ![cameraRequests + 1] = "pending"]
           ELSE /\ streams' = cleaned
                /\ UNCHANGED cameraRequests
        /\ UNCHANGED <<liveIntervalRef, timersCreated, tickLang>>

cameraVars == <<streams, cameraRequests, srcObject, isLiveMonitoring, liveIntervalRef,
                liveTimers, timersCreated, tickLang>>
analysisVars == <<loading, result, analyses, nextAnalysis, chatMessages, chatNotes>>
pendingVars == <<fileRead, videoRead, seqPhase, seqFrames, seqLang>>

\* handlePickerSelect(mode): line 252, picking another mode.
handlePickerSelect(mode) ==
    /\ mode # inputMode
    /\ SetInputMode(mode)
    /\ UNCHANGED <<selectedLang, analysisVars, pendingVars>>

\* startCamera after its await resolved (lines 178-181): the stream is attached
\* to the element now mounted, replacing what it showed; with no element it
\* is dropped.
GetUserMediaResolves(s) ==
    /\ streams[s] = "pending"
    /\ streams' = [streams EXCEPT ![s] = "live"]
    /\ srcObject' = IF Mounted(inputMode) THEN s ELSE srcObject
    /\ UNCHANGED <<inputMode, selectedLang, cameraRequests, isLiveMonitoring, liveIntervalRef,
                   liveTimers, timersCreated, tickLang, analysisVars, pendingVars>>

\* startCamera after its await rejected (lines 182-185): setInputMode('upload').
GetUserMediaRejects(s) ==
    /\ streams[s] = "pending"
    /\ IF inputMode = "upload"
       THEN /\ streams' = [streams EXCEPT ![s] = "rejected"]
            /\ UNCHANGED <<inputMode, srcObject, liveTimers, isLiveMonitoring>>
       ELSE LET cleaned == StopTracks(streams, 0)
            IN  /\ inputMode' = "upload"
                /\ streams' = [cleaned EXCEPT ![s] = "rejected"]
                /\ srcObject' = 0
                /\ liveTimers' = ClearInterval(liveTimers, liveIntervalRef)
                /\ isLiveMonitoring' = FALSE
    /\ UNCHANGED <<selectedLang, cameraRequests, liveIntervalRef, timersCreated, tickLang,
                   analysisVars, pendingVars>>

\* onChange of the language select (line 471).
SelectLang(lang) ==
    /\ lang # selectedLang
    /\ selectedLang' = lang
    /\ UNCHANGED <<inputMode, cameraVars, analysisVars, pendingVars>>

\* ---- handleAnalysis (lines 98-125).
\* Calls not yet made that handlers already under way will make.
Committed ==
    nextAnalysis + (IF fileRead # "none" THEN 1 ELSE 0) + (IF videoRead # "none" THEN 1 ELSE 0)
                 + (IF seqPhase = "waiting" THEN 1 ELSE 0)
Budget == Committed < MaxAnalyses

\* Faulty variant: every result goes through the translation request.
TranslationNeededAlways(lang) == TRUE

\* selectedLang !== 'en' (line 106); translateResult itself returns its
\* argument at once for 'en' (geminiService.ts line 71).
TranslationNeeded(lang) == lang # "en"

\* translateResult(result, targetLang) (geminiService.ts lines 70-84): the
\* value it resolves with and whether it sends a request.
translateResult(r, targetLang) ==
    IF targetLang = "en"
    THEN [value |-> r, request |-> FALSE]
    ELSE [value |-> Translated(r, targetLang), request |-> TRUE]

\* handleAnalysis(input, silent) up to `await analyzeVisual`; `lang` is the
\* selectedLang of the closure it is called from, `res` the result state the
\* caller leaves.
handleAnalysis(type, frameCount, silent, lang, res) ==
    /\ nextAnalysis < MaxAnalyses
    /\ nextAnalysis' = nextAnalysis + 1
    /\ analyses' = [analyses EXCEPT ![nextAnalysis + 1] =
            [phase |-> "analyzing", silent |-> silent, lang |-> lang, type |-> type,
             frames |-> frameCount, translateRequests |-> 0, stored |-> NoResult]]
    /\ loading' = IF silent THEN loading ELSE TRUE
    /\ result' = res
    /\ UNCHANGED <<chatMessages, chatNotes>>

\* finally { if (!silent) setLoading(false) } (lines 122-124).
Finally(k) == loading' = IF analyses[k].silent THEN loading ELSE FALSE

\* setResult(finalResult) and the note appended to the chat (lines 109-112).
Store(k, final) ==
    /\ result' = final
    /\ analyses' = [analyses EXCEPT ![k].phase = "stored", ![k].stored = final]
    /\ chatMessages' = Append(chatMessages, Message("bot", AnalysisNote, 0))
    /\ chatNotes' = chatNotes + 1
    /\ Finally(k)
    /\ UNCHANGED nextAnalysis

\* analyzeVisual resolved: lines 104-107, and on to the end for 'en'.
AnalyzeVisualResolves(k) ==
    /\ analyses[k].phase = "analyzing"
    /\ IF TranslationNeeded(analyses[k].lang)
       THEN /\ analyses' = [analyses EXCEPT ![k].phase = "translating",
                                             ![k].translateRequests = @ + 1]
            /\ UNCHANGED <<loading, result, nextAnalysis, chatMessages, chatNotes>>
       ELSE Store(k, Raw(k))
    /\ UNCHANGED <<inputMode, selectedLang, cameraVars, pendingVars>>

\* translateResult resolved: lines 107-112.
TranslateResolves(k) ==
    /\ analyses[k].phase = "translating"
    /\ Store(k, translateResult(Raw(k), analyses[k].lang).value)
    /\ UNCHANGED <<inputMode, selectedLang, cameraVars, pendingVars>>

\* analyzeVisual or translateResult rejected: catch and finally (lines 119-124).
AnalysisFails(k) ==
    /\ analyses[k].phase \in {"analyzing", "translating"}
    /\ analyses' = [analyses EXCEPT ![k].phase = "failed"]
    /\ Finally(k)
    /\ UNCHANGED <<result, nextAnalysis, chatMessages, chatNotes>>
    /\ UNCHANGED <<inputMode, selectedLang, cameraVars, pendingVars>>

\* ---- the upload handlers (lines 146-173).
\* onFileUpload up to `await fileToBase64`.
onFileUpload ==
    /\ inputMode = "upload"
    /\ fileRead = "none"
    /\ Budget
    /\ fileRead' = selectedLang
    /\ UNCHANGED <<inputMode, selectedLang, cameraVars, analysisVars,
                   videoRead, seqPhase, seqFrames, seqLang>>

\* fileToBase64 resolved: setResult(null), handleAnalysis({type: 'image'}).
FileRead ==
    /\ fileRead # "none"
    /\ handleAnalysis("image", 1, FALSE, fileRead, NoResult)
    /\ fileRead' = "none"
    /\ UNCHANGED <<inputMode, selectedLang, cameraVars, videoRead, seqPhase, seqFrames, seqLang>>

\* onVideoUpload up to `await extractFramesFromVideo`: setLoading(true).
onVideoUpload ==
    /\ inputMode = "video"
    /\ videoRead = "none"
    /\ Budget
    /\ videoRead' = selectedLang
    /\ loading' = TRUE
    /\ UNCHANGED <<inputMode, selectedLang, cameraVars, result, analyses, nextAnalysis,
                   chatMessages, chatNotes, fileRead, seqPhase, seqFrames, seqLang>>

\* extractFramesFromVideo resolved: setResult(null), handleAnalysis(video_frames).
FramesExtracted ==
    /\ videoRead # "none"
    /\ handleAnalysis("video_frames", ExtractedFrames, FALSE, videoRead, NoResult)
    /\ videoRead' = "none"
    /\ UNCHANGED <<inputMode, selectedLang, cameraVars, fileRead, seqPhase, seqFrames, seqLang>>

\* extractFramesFromVideo rejected: the catch sets loading to false.
ExtractionFails ==
    /\ videoRead # "none"
    /\ videoRead' = "none"
    /\ loading' = FALSE
    /\ UNCHANGED <<inputMode, selectedLang, cameraVars, result, analyses, nextAnalysis,
                   chatMessages, chatNotes, fileRead, seqPhase, seqFrames, seqLang>>

\* ---- captureFrame (lines 197-213).
\* The capture button, rendered in camera mode: captureFrame().
captureFrame ==
    /\ inputMode = "camera"
    /\ Budget
    /\ stopCamera
    /\ handleAnalysis("image", 1, FALSE, selectedLang, result)
    /\ UNCHANGED <<inputMode, selectedLang, cameraRequests, pendingVars>>

\* captureFrame(true), from toggleLiveMonitoring or its timer: nothing without
\* the elements, otherwise a silent handleAnalysis.
captureFrameSilent(lang) ==
    IF Mounted(inputMode)
    THEN /\ Budget
         /\ handleAnalysis("image", 1, TRUE, lang, result)
    ELSE UNCHANGED analysisVars

\* ---- toggleLiveMonitoring (lines 240-249).
toggleLiveMonitoring ==
    /\ IF isLiveMonitoring
       THEN /\ liveTimers' = ClearInterval(liveTimers, liveIntervalRef)
            /\ isLiveMonitoring' = FALSE
            /\ UNCHANGED <<liveIntervalRef, timersCreated, tickLang, analysisVars>>
       ELSE /\ timersCreated < MaxTimers
            /\ isLiveMonitoring' = TRUE
            /\ captureFrameSilent(selectedLang)
            /\ timersCreated' = timersCreated + 1
            /\ liveIntervalRef' = timersCreated + 1
            /\ liveTimers' = liveTimers \cup {timersCreated + 1}
            /\ tickLang' = selectedLang
    /\ UNCHANGED <<inputMode, selectedLang, streams, cameraRequests, srcObject, pendingVars>>

\* The interval timer fires (every 15 s): captureFrame(true) of its closure.
LiveTick(t) ==
    /\ t \in liveTimers
    /\ Mounted(inputMode)
    /\ captureFrameSilent(tickLang)
    /\ UNCHANGED <<inputMode, selectedLang, cameraVars, pendingVars>>

\* ---- captureLiveVideoSequence (lines 215-238); one run at a time is followed.
\* The button, rendered in live mode: setLoading(true), the first capture, and
\* the first wait.
captureLiveVideoSequence ==
    /\ inputMode = "live"
    /\ seqPhase # "waiting"
    /\ Budget
    /\ loading' = TRUE
    /\ seqPhase' = "waiting"
    /\ seqFrames' = 1
    /\ seqLang' = selectedLang
    /\ UNCHANGED <<inputMode, selectedLang, cameraVars, result, analyses, nextAnalysis,
                   chatMessages, chatNotes, fileRead, videoRead>>

\* The loop test i < 3 after the n-th wait.
SequenceComplete(n) == n >= SequenceFrames

\* A 1 s wait is over. In the loop capture() runs next: it dereferences
\* canvasRef.current! and videoRef.current!, which throws a TypeError when the
\* elements are unmounted, and the async function rejects there. After the
\* loop: stopCamera() and handleAnalysis({type: 'video_frames', data: frames}).
SequenceTimer ==
    /\ seqPhase = "waiting"
    /\ IF SequenceComplete(seqFrames)
       THEN /\ stopCamera
            /\ handleAnalysis("video_frames", seqFrames, FALSE, seqLang, result)
            /\ seqPhase' = "idle"
            /\ UNCHANGED <<seqFrames, seqLang>>
       ELSE /\ IF Mounted(inputMode)
               THEN seqFrames' = seqFrames + 1 /\ UNCHANGED seqPhase
               ELSE seqPhase' = "threw" /\ UNCHANGED seqFrames
            /\ UNCHANGED <<cameraVars, analysisVars, seqLang>>
    /\ UNCHANGED <<inputMode, selectedLang, cameraRequests, fileRead, videoRead>>

\* ------------------------------------------------------------------- systems
PcmIdle == pcmSource = NoSource /\ pcmData = <<>> /\ pcmBuffer = <<>>

InitApp == InitApi /\ InitSpeech /\ InitChat /\ InitUi

Init == InitAudio /\ InitVideo /\ PcmIdle /\ InitAnalyze /\ InitApp

SpecAudio == Init /\ [][NextAudio]_vars
SpecVideo == Init /\ [][NextVideo]_vars
\* decodeAudioData is given one of its inputs; the other components are at rest.
InitDecode == InitAudio /\ InitVideo /\ InitPcm /\ InitAnalyze /\ InitApp
SpecPcm == InitDecode /\ [][NextPcm]_vars
SpecAnalyze == Init /\ [][NextAnalyze]_vars
SpecApi == Init /\ [][NextApi]_vars
SpecSpeech == Init /\ [][NextSpeech]_vars
\* The camera side: modes, streams, timers, the captures and the settling of the
\* analyses they start; the language stays 'en'.
NextCamera ==
    \/ \E mode \in InputModes : handlePickerSelect(mode) /\ UNCHANGED notUi
    \/ \E s \in Streams : GetUserMediaResolves(s) /\ UNCHANGED notUi
    \/ \E s \in Streams : GetUserMediaRejects(s) /\ UNCHANGED notUi
    \/ captureFrame /\ UNCHANGED notUi
    \/ toggleLiveMonitoring /\ UNCHANGED notUi
    \/ \E t \in liveTimers : LiveTick(t) /\ UNCHANGED notUi
    \/ captureLiveVideoSequence /\ UNCHANGED notUi
    \/ SequenceTimer /\ UNCHANGED notUi
    \/ \E k \in Analyses : AnalyzeVisualResolves(k) /\ UNCHANGED notUi
    \/ \E k \in Analyses : AnalysisFails(k) /\ UNCHANGED notUi
SpecCamera == Init /\ [][NextCamera]_vars

\* Fairness on the timers of the capture sequence and on the network: a 1 s
\* wait ends, and a request in flight settles.
CaptureSettles == \E k \in Analyses : AnalyzeVisualResolves(k) \/ AnalysisFails(k)
FairSpecCamera ==
    /\ Init /\ [][NextCamera]_vars
    /\ WF_vars(SequenceTimer /\ UNCHANGED notUi)
    /\ WF_vars(CaptureSettles /\ UNCHANGED notUi)

\* The analysis side: uploads, language, and the settling of the requests.
NextUpload ==
    \/ \E mode \in InputModes \ CameraModes : handlePickerSelect(mode) /\ UNCHANGED notUi
    \/ \E lang \in Languages : SelectLang(lang) /\ UNCHANGED notUi
    \/ onFileUpload /\ UNCHANGED notUi
    \/ FileRead /\ UNCHANGED notUi
    \/ onVideoUpload /\ UNCHANGED notUi
    \/ FramesExtracted /\ UNCHANGED notUi
    \/ ExtractionFails /\ UNCHANGED notUi
    \/ \E k \in Analyses : AnalyzeVisualResolves(k) /\ UNCHANGED notUi
    \/ \E k \in Analyses : TranslateResolves(k) /\ UNCHANGED notUi
    \/ \E k \in Analyses : AnalysisFails(k) /\ UNCHANGED notUi
SpecUpload == Init /\ [][NextUpload]_vars
\* Fairness on the network: the chat request in flight settles.
FairSpecChat == Init /\ [][NextChat]_vars /\ WF_vars(ChatSettles /\ UNCHANGED notChat)
\* Fairness on the platform's seek completion: an outstanding seek settles.
FairSpecVideo == Init /\ [][NextVideo]_vars /\ WF_vars(onseeked /\ UNCHANGED notVideo)

\* ================================================================= properties
Playing == {c \in Calls : sourceState[c] = "playing"}

\* The values assigned to video.currentTime, in order.
SeekRequests ==
    LET seeks == SelectSeq(eventLog, LAMBDA e : e[1] = "seek")
    IN  [i \in 1..Len(seeks) |-> seeks[i][2]]

IsPrefix(s, t) == Len(s) <= Len(t) /\ \A i \in 1..Len(s) : s[i] = t[i]

\* C1: at most one audio source is started and not yet stopped or ended at any
\* time, whatever the interleaving of playPCM calls and 'ended' events.
C1_AtMostOnePlaying == Cardinality(Playing) <= 1

\* C2 (as claimed): a playPCM promise resolves only when its own playback ended
\* naturally; the promise of a call whose source was stopped by a later call
\* never resolves.
C2_SupersededNeverResolves ==
    \A c \in Calls : callState[c] = "resolved" => stoppedBy[c] = 0

\* C2 (amended): a playPCM promise is resolved exactly when the 'ended' handler
\* of its own source has run, be it after a natural end or after a later call
\* stopped the source; until then a started call's promise stays pending.
C2_ResolvedIffOwnEnded ==
    \A c \in Calls :
        /\ callState[c] = "resolved" <=> sourceState[c] = "ended"
        /\ sourceState[c] \in {"playing", "finished", "stopped"} => callState[c] = "pending"

C2_Witness ==
    \E c \in Calls : callState[c] = "resolved" /\ stoppedBy[c] # 0

\* C3: the promise of extractFramesFromVideo is resolved with exactly 3 frames or
\* delivers no frames at all.
C3_ThreeFramesOrNone ==
    /\ promiseState = "resolved" => Len(resolvedFrames) = 3
    /\ promiseState # "resolved" => resolvedFrames = <<>>

C3_Witness == promiseState = "resolved" /\ Len(resolvedFrames) = 3 /\ duration > 0

\* C4: the object URL is revoked in every terminal outcome: once the promise is
\* resolved and also once it is rejected.
C4_RevokedWhenSettled ==
    promiseState \in {"resolved", "rejected"} => urlRevoked

\* C5: every frame is captured right after the 'seeked' event of the seek to its
\* own timestamp, shows that timestamp's position, and the frames are in the order
\* of their capture.
C5_FrameAfterOwnSeeked ==
    /\ Len(eventLog) = 3 * Len(frames) + (IF seeking THEN 1 ELSE 0)
    /\ \A i \in 1..Len(frames) :
        /\ frames[i] = timestamps[i]
        /\ eventLog[3 * i - 2] = <<"seek", timestamps[i]>>
        /\ eventLog[3 * i - 1] = <<"seeked", timestamps[i]>>
        /\ eventLog[3 * i] = <<"capture", frames[i]>>
    /\ \A i, j \in 1..Len(frames) : i < j /\ duration > 0 => frames[i] < frames[j]

C5_Witness ==
    /\ Len(frames) = 3
    /\ duration > 0
    /\ frames[1] < frames[2]
    /\ frames[2] < frames[3]

\* C6: for a duration D > 0 the seeks requested are 0.2 D, 0.5 D and 0.8 D in that
\* order and no other (positions in tenths of a second: 2 D, 5 D, 8 D); all three
\* have been requested once the loop is over; for D = 10 they are 2, 5 and 8 s.
C6_SeeksAtFractions ==
    (videoPhase # "loading" /\ duration > 0) =>
        /\ IsPrefix(SeekRequests, <<2 * duration, 5 * duration, 8 * duration>>)
        /\ videoPhase = "done" => Len(SeekRequests) = 3
        /\ (videoPhase = "done" /\ duration = 10) => SeekRequests = <<20, 50, 80>>

C6_Witness == videoPhase = "done" /\ duration = 10 /\ SeekRequests = <<20, 50, 80>>

\* C7: an error event emitted while the promise is still pending rejects it, and
\* a rejected promise stays rejected and delivers no frames, also when the loop
\* goes on to capture the remaining frames.
C7_ErrorRejects ==
    [][ /\ (~errorFired /\ errorFired' /\ promiseState = "pending")
            => promiseState' = "rejected"
        /\ promiseState = "rejected"
            => (promiseState' = "rejected" /\ resolvedFrames' = <<>>) ]_vars

C7_Witness ==
    /\ errorFired
    /\ promiseState = "rejected"
    /\ videoPhase = "done"
    /\ Len(frames) = 3
    /\ resolvedFrames = <<>>

\* C8: when metadata has loaded with a duration that is not a finite number, the
\* promise is rejected.
C8_NonFiniteDurationRejects ==
    (videoPhase # "loading" /\ duration = NonFinite) => promiseState = "rejected"

\* C9 (as claimed): once metadata has loaded with a finite duration > 0, and every
\* seek settles, the promise is eventually resolved with its 3 frames.
C9_EventuallyResolved ==
    (videoPhase = "capturing" /\ duration > 0)
        ~> (promiseState = "resolved" /\ Len(resolvedFrames) = 3)

\* C9 (amended): once metadata has loaded with a finite duration > 0, and every
\* seek settles, the promise is eventually resolved with its 3 frames unless the
\* element emits an error event first.
C9_ResolvedUnlessError ==
    (videoPhase = "capturing" /\ duration > 0)
        ~> ((promiseState = "resolved" /\ Len(resolvedFrames) = 3) \/ errorFired)

C9_Witness ==
    /\ promiseState = "resolved"
    /\ Len(resolvedFrames) = 3
    /\ duration > 0
    /\ ~errorFired

\* C10: a call made while the slot refers to a playing source A stops A itself, at
\* once, and A is no longer playing when the source of that call starts.
C10_StopBeforeStart ==
    /\ [](\A c \in Calls : sawPlaying[c] # 0 =>
            /\ stoppedBy[sawPlaying[c]] = c
            /\ sourceState[sawPlaying[c]] \in {"stopped", "ended"})
    /\ [][\A c \in Calls :
            (sourceState[c] = "none" /\ sourceState'[c] = "playing" /\ sawPlaying[c] # 0)
                => sourceState[sawPlaying[c]] # "playing"]_vars

C10_Witness ==
    \E c \in Calls : sourceState[c] = "playing" /\ sawPlaying[c] # 0

\* C11: when the playback of a call ended naturally and no later playPCM call was
\* made, that call's promise is resolved and the slot activeAudioSource is null.
C11_NaturalEndResolvesAndClears ==
    \A c \in Calls :
        (sourceState[c] = "ended" /\ stoppedBy[c] = 0 /\ nextCall = c)
            => (callState[c] = "resolved" /\ activeAudioSource = 0)

C11_Witness ==
    \E c \in Calls :
        /\ sourceState[c] = "ended"
        /\ stoppedBy[c] = 0
        /\ nextCall = c
        /\ callState[c] = "resolved"
        /\ activeAudioSource = 0

\* The samples of the first channel of the decoded buffer (none before the
\* decoding has run or when it failed).
Decoded == pcmBuffer # <<>> /\ pcmBuffer[1].ok
DecodedSamples == IF Decoded THEN pcmBuffer[1].channelData[1] ELSE <<>>

\* The signed 16-bit little-endian value of the byte pair (lo, hi).
SignedLE(lo, hi) == lo + 256 * hi - (IF hi >= 128 THEN 65536 ELSE 0)

\* C12: the sample decoded from byte pair i of the payload is s / 32768 with s the
\* signed 16-bit little-endian value of that pair, the samples being in payload
\* order; bytes 00 80 give exactly -1 and bytes FF 7F give 32767 / 32768.
C12_SampleIsSignedLEOver32768 ==
    Decoded =>
        /\ Len(DecodedSamples) = Len(pcmData) \div 2
        /\ \A i \in 1..Len(DecodedSamples) :
            DecodedSamples[i].num * 32768
                = SignedLE(pcmData[2 * i - 1], pcmData[2 * i]) * DecodedSamples[i].den
        /\ pcmData = <<0, 128>> => DecodedSamples[1].num = -DecodedSamples[1].den
        /\ pcmData = <<255, 127>>
            => DecodedSamples[1].num * 32768 = 32767 * DecodedSamples[1].den

C12_Witness ==
    /\ Decoded
    /\ pcmData = <<0, 128, 255, 127>>
    /\ DecodedSamples[1].num = -DecodedSamples[1].den
    /\ DecodedSamples[2].num = 32767

\* C13 (as claimed): every normalized sample is strictly greater than -1 and at
\* most 1.
C13_SampleAboveMinusOne ==
    \A i \in 1..Len(DecodedSamples) :
        /\ -DecodedSamples[i].den < DecodedSamples[i].num
        /\ DecodedSamples[i].num <= DecodedSamples[i].den

\* C13 (amended): every normalized sample is at least -1 and strictly less than 1.
C13_SampleBelowOne ==
    \A i \in 1..Len(DecodedSamples) :
        /\ -DecodedSamples[i].den <= DecodedSamples[i].num
        /\ DecodedSamples[i].num < DecodedSamples[i].den

C13_Witness ==
    /\ Decoded
    /\ pcmData = <<0, 128>>
    /\ DecodedSamples[1].num = -DecodedSamples[1].den

\* The bytes a call's payload decodes to, for the calls made with a context that
\* could be built and a payload that is valid base64.
Called(c) == callState[c] # "uncalled"
DecodedBytes(c) == decode(payloadOf[c]).bytes
OddPayload(c) ==
    Called(c) /\ decode(payloadOf[c]).ok /\ Len(DecodedBytes(c)) % 2 = 1
EmptyPayload(c) ==
    Called(c) /\ decode(payloadOf[c]).ok /\ Len(DecodedBytes(c)) = 0

\* C14: a call whose payload decodes to an odd number of bytes fails in its
\* decoding step: no audio buffer is produced, it rejects as soon as it resumes
\* from the await, and it starts no source.
C14_OddLengthRejects ==
    \A c \in Calls :
        OddPayload(c) =>
            /\ ~decodeResult[c].ok
            /\ sourceBuffer[c] = <<>>
            /\ sourceState[c] = "none"
            /\ callState[c] \in {"awaiting", "rejected"}
            /\ callState[c] = "awaiting" <=> (\E k \in 1..Len(microtasks) : microtasks[k] = c)

C14_Witness ==
    \E c \in Calls :
        /\ OddPayload(c)
        /\ Len(DecodedBytes(c)) = 3
        /\ c \notin ctxFailed
        /\ callState[c] = "rejected"

\* C16: a call whose payload decodes to zero samples fails: the error of the
\* buffer construction reaches the caller as a rejection, no source is started
\* and the slot is never set to a source of that call.
C16_EmptyBufferRejects ==
    \A c \in Calls :
        EmptyPayload(c) =>
            /\ sourceState[c] = "none"
            /\ activeAudioSource # c
            /\ callState[c] \in {"awaiting", "rejected"}
            /\ callState[c] = "awaiting" <=> (\E k \in 1..Len(microtasks) : microtasks[k] = c)

C16_Witness ==
    \E c \in Calls :
        /\ EmptyPayload(c)
        /\ c \notin ctxFailed
        /\ callState[c] = "rejected"
        /\ activeAudioSource # c

Abs(n) == IF n < 0 THEN -n ELSE n

\* C15: a sample value x = k / GridSteps in [-1, 1], written as 16-bit PCM (round
\* to nearest, clamped) and decoded, comes back within one quantization step
\* 1 / 32768 of x.
C15_RoundTripWithinOneStep ==
    (pcmSource # NoSource /\ pcmBuffer # <<>>) =>
        /\ Decoded
        /\ Len(DecodedSamples) = 1
        /\ DecodedSamples[1].den = 32768
        /\ Abs(DecodedSamples[1].num * GridSteps - pcmSource * DecodedSamples[1].den)
              <= GridSteps

C15_Witness ==
    /\ pcmSource = GridSteps
    /\ Decoded
    /\ DecodedSamples[1].num = 32767

\* The number of contextual variants the documentation promises.
DocumentedVariants == 8

\* C17: the contract analyzeVisual imposes has exactly 8 variant captions: the
\* prompt asks for 8, the schema admits exactly 8, and every result returned with
\* variants has 8 of them.
C17_EightVariants ==
    /\ analysisRequest # <<>> =>
        /\ analysisRequest[1].promptVariants = DocumentedVariants
        /\ analysisRequest[1].minItems = DocumentedVariants
        /\ analysisRequest[1].maxItems = DocumentedVariants
    /\ (analysisResult # <<>> /\ analysisResult[1].hasVariants) =>
        Len(analysisResult[1].variants) = DocumentedVariants

\* The most recently started source (sources start in the order of their calls).
Started == {c \in Calls : sourceState[c] # "none"}
Newest == CHOOSE c \in Started : \A d \in Started : d <= c

\* C18: a source that is still playing is the one activeAudioSource refers to
\* (stated for the most recently started source): the 'ended' handler of an older
\* source never clears or overwrites the slot while the newer source is playing.
C18_NewestPlayingIsActive ==
    (Started # {} /\ sourceState[Newest] = "playing") => activeAudioSource = Newest

\* C20: a playPCM call that has failed has stopped no source: a playback that
\* was active before the call is not stopped by it.
C20_FailedCallStopsNothing ==
    \A c \in Calls :
        (callState[c] = "rejected" /\ c \notin ctxFailed)
            => \A a \in Calls : stoppedBy[a] # c

\* The number of entries of a kind among the first n entries of the event log.
CountLog(kind, n) == Cardinality({k \in 1..n : eventLog[k][1] = kind})

\* C19: the captures never overlap: at every point of the run at most one seek
\* is outstanding, and a seek is requested only when the frame of every earlier
\* seek has been drawn and encoded.
C19_CapturesDoNotOverlap ==
    /\ \A n \in 0..Len(eventLog) :
        CountLog("seek", n) - CountLog("seeked", n) \in {0, 1}
    /\ seeking <=>
        CountLog("seek", Len(eventLog)) - CountLog("seeked", Len(eventLog)) = 1
    /\ \A k \in 1..Len(eventLog) :
        eventLog[k][1] = "seek" => CountLog("capture", k - 1) = CountLog("seek", k - 1)

C19_Witness ==
    /\ seeking
    /\ CountLog("seek", Len(eventLog)) = 3
    /\ CountLog("capture", Len(eventLog)) = 2

\* C27: a payload of even byte length 2n with n >= 1 decodes, with one channel,
\* into a buffer of exactly one channel holding n frames, and all channels of a
\* decoded buffer hold the same number of frames.
C27_OneChannelOfHalfLength ==
    /\ (pcmBuffer # <<>> /\ Len(pcmData) >= 2 /\ Len(pcmData) % 2 = 0) =>
            /\ pcmBuffer[1].ok
            /\ Len(pcmBuffer[1].channelData) = 1
            /\ Len(pcmBuffer[1].channelData[1]) * 2 = Len(pcmData)
    /\ Decoded =>
            \A a, b \in 1..Len(pcmBuffer[1].channelData) :
                Len(pcmBuffer[1].channelData[a]) = Len(pcmBuffer[1].channelData[b])

C27_Witness ==
    /\ Decoded
    /\ Len(pcmData) = 4
    /\ Len(pcmBuffer[1].channelData) = 1
    /\ Len(pcmBuffer[1].channelData[1]) = 2

\* C30: a request is answered at most once, and exactly once when the handler
\* has returned; a method other than POST gets 405 and no model call; a POST
\* gets 200 with the model's response when the call succeeded, and 500 with a
\* non-empty error message when reading the body or the call threw.
Answered(r) == apiPhase[r] = "returned"
C30_AnsweredExactlyOnce ==
    \A r \in Requests :
        /\ Len(apiResponses[r]) <= 1
        /\ apiModelCalls[r] <= 1
        /\ Answered(r) =>
            LET req == apiRequest[r][1]
                ans == apiResponses[r][1]
            IN  /\ Len(apiResponses[r]) = 1
                /\ req.method # "POST" =>
                        ans.status = 405 /\ apiModelCalls[r] = 0
                /\ (req.method = "POST" /\ req.body = "undefined") =>
                        /\ ans.status = 500 /\ ans.json.error # ""
                        /\ apiModelCalls[r] = 0
                /\ (req.method = "POST" /\ req.body # "undefined") =>
                        /\ apiModelCalls[r] = 1
                        /\ apiModelOutcome[r][1].ok =>
                              ans = [status |-> 200, json |-> apiModelOutcome[r][1].value]
                        /\ ~apiModelOutcome[r][1].ok =>
                              ans.status = 500 /\ ans.json.error # ""

C30_Witness ==
    \E a, b, c \in Requests :
        /\ Answered(a) /\ apiResponses[a][1].status = 405
        /\ Answered(b) /\ apiResponses[b][1].status = 200
        /\ Answered(c) /\ apiResponses[c][1] = [status |-> 500, json |-> [error |-> "Server error"]]

\* C25: a failure of generateSpeech or playPCM inside handleSpeech is caught and
\* logged, resets isSpeaking and issues no further request; every accepted call
\* issues exactly one generateSpeech request and at most one playPCM call; a call
\* made while isSpeaking is true changes nothing and issues no request, and a
\* call made after the reset is accepted.
SpeechFailed == Len(speechErrors') = Len(speechErrors) + 1
SpeechCalled == speechCalls' = speechCalls + 1
C25_FailureResetsNoRetry ==
    /\ [](isSpeaking <=> speechPhase # "idle")
    /\ [](speechRequests = speechCalls - speechIgnored /\ playRequests <= speechRequests)
    /\ [][SpeechFailed =>
            /\ isSpeaking /\ ~isSpeaking'
            /\ UNCHANGED <<speechRequests, playRequests>>]_vars
    /\ [][SpeechCalled =>
            IF isSpeaking
            THEN UNCHANGED <<isSpeaking, speechPhase, speechRequests, playRequests, speechErrors>>
            ELSE isSpeaking' /\ speechRequests' = speechRequests + 1]_vars

\* Both kinds of failure happened and a later call was accepted.
C25_Witness ==
    /\ \E i, j \in 1..Len(speechErrors) :
            speechErrors[i] \in SpeechFailures /\ speechErrors[j] \in PlaybackFailures
    /\ speechIgnored > 0
    /\ speechRequests = 3
    /\ speechPhase = "generating"

\* C29: every accepted handleChatSubmit appends the user's message and, once
\* its request has settled, exactly one bot message for it after the user's (the
\* reply or the fixed fallback), and isChatLoading is then false again, which
\* eventually happens; a submit with blank input or made while isChatLoading is
\* true changes nothing; the chat log only grows by appending.
MessagesOf(role, k) ==
    {i \in 1..Len(chatMessages) : chatMessages[i].role = role /\ chatMessages[i].re = k}
ChatSubmitted == chatSubmits' = chatSubmits + 1
C29_OneReplyPerSubmit ==
    /\ [](\A k \in 1..MaxChatSubmits + 1 :
            /\ Cardinality(MessagesOf("user", k)) = (IF k <= chatAccepted THEN 1 ELSE 0)
            /\ Cardinality(MessagesOf("bot", k)) =
                  (IF k <= chatAccepted /\ ~(isChatLoading /\ k = chatAccepted) THEN 1 ELSE 0)
            /\ \A i \in MessagesOf("user", k), j \in MessagesOf("bot", k) :
                  /\ i < j
                  /\ Trim(chatMessages[i].text) # <<>>
                  /\ chatMessages[j].text \in {"an answer", Sorry, Trouble})
    /\ [][IsPrefix(chatMessages, chatMessages')]_vars
    /\ [][(ChatSubmitted /\ (Trim(chatInput) = <<>> \/ isChatLoading)) =>
            UNCHANGED <<chatInput, chatMessages, isChatLoading, chatPending>>]_vars
    /\ [][(ChatSubmitted /\ ~(Trim(chatInput) = <<>> \/ isChatLoading)) =>
            /\ chatMessages' = Append(chatMessages, Message("user", chatInput, chatAccepted'))
            /\ isChatLoading']_vars
    /\ (isChatLoading ~> ~isChatLoading)

\* Two submits were answered, one by the fallback, with a note of handleAnalysis
\* between them, and a submit made while loading was refused.
C29_Witness ==
    /\ chatAccepted = 2
    /\ chatSubmits = 3
    /\ ~isChatLoading
    /\ \E j \in MessagesOf("bot", 1) : chatMessages[j].text = Trouble
    /\ \E j \in MessagesOf("bot", 2) : chatMessages[j].text = "an answer"
    /\ \E n \in MessagesOf("bot", 0) : \E i \in MessagesOf("user", 1) : i < n

\* C21 (as claimed): once inputMode is neither 'camera' nor 'live' and no
\* getUserMedia request is pending, no stream obtained by startCamera has a live
\* track.
C21_StreamsStoppedOutsideCameraModes ==
    (~Mounted(inputMode) /\ \A s \in Streams : streams[s] # "pending")
        => \A s \in Streams : streams[s] # "live"

\* C28: at most one live-monitoring interval timer exists at any time, no such
\* timer is pending while isLiveMonitoring is false, and a silent capture is
\* only ever started while isLiveMonitoring is true.
SilentCaptureStarted ==
    nextAnalysis' = nextAnalysis + 1 /\ analyses'[nextAnalysis'].silent
C28_OneTimerOnlyWhileMonitoring ==
    /\ [](Cardinality(liveTimers) <= 1)
    /\ [](~isLiveMonitoring => liveTimers = {})
    /\ [](liveTimers \subseteq {liveIntervalRef})
    /\ [][SilentCaptureStarted => isLiveMonitoring']_vars

\* Monitoring was switched on, ended, and switched on again; the second timer
\* is the only one and it has fired.
C28_Witness ==
    /\ timersCreated = 2
    /\ liveTimers = {2}
    /\ isLiveMonitoring
    /\ nextAnalysis = 3
    /\ \A k \in 1..3 : analyses[k].silent

\* C22 (as claimed): loading is true whenever a non-silent handleAnalysis call
\* is in flight.
InFlight(k) == analyses[k].phase \in {"analyzing", "translating"}
C22_LoadingWhileInFlight ==
    \A k \in Analyses : (InFlight(k) /\ ~analyses[k].silent) => loading

\* C23 (as claimed): once every handleAnalysis call has settled (here: each with
\* a result) and no handler is about to start another, the result in state is
\* that of the most recently started call.
AllStored ==
    /\ nextAnalysis > 0
    /\ \A k \in 1..nextAnalysis : analyses[k].phase = "stored"
    /\ fileRead = "none" /\ videoRead = "none" /\ seqPhase # "waiting"
C23_LatestStartedWins == AllStored => result.of = nextAnalysis

\* C26: a call sends the translation request exactly when its language is not
\* 'en', after analyzeVisual has returned and before anything is stored; for
\* 'en' what is stored is analyzeVisual's result, otherwise its translation;
\* translateResult with 'en' gives its argument back without a request.
C26_TranslatedIffNotEnglish ==
    \A k \in Analyses :
        LET a == analyses[k]
        IN  /\ a.translateRequests <= 1
            /\ a.translateRequests = 1 => a.lang # "en"
            /\ a.phase = "analyzing" => a.translateRequests = 0 /\ a.stored = NoResult
            /\ a.phase = "translating" =>
                    /\ a.translateRequests = 1
                    /\ a.stored = NoResult
                    /\ result.of # k
            /\ a.phase = "stored" =>
                    /\ a.lang = "en" =>
                          /\ a.translateRequests = 0
                          /\ a.stored = Raw(k)
                          /\ translateResult(a.stored, "en") = [value |-> a.stored, request |-> FALSE]
                    /\ a.lang # "en" =>
                          /\ a.translateRequests = 1
                          /\ a.stored = [of |-> k, lang |-> a.lang]
            /\ result.of = k => a.phase = "stored" /\ result = a.stored

C26_Witness ==
    \E j, k \in Analyses :
        /\ analyses[j].phase = "stored" /\ analyses[j].lang = "en"
        /\ analyses[j].stored = [of |-> j, lang |-> "en"]
        /\ analyses[k].phase = "stored" /\ analyses[k].lang = "es"
        /\ analyses[k].translateRequests = 1
        /\ result = [of |-> k, lang |-> "es"]

\* C24 (as claimed): a run of captureLiveVideoSequence that has set loading
\* eventually hands its frames, exactly 3 and as 'video_frames', to
\* handleAnalysis, and loading eventually returns to false.
C24_SequenceHandsThreeFrames ==
    /\ [](\A k \in Analyses :
            analyses[k].type = "video_frames" => analyses[k].frames = SequenceFrames)
    /\ (seqPhase = "waiting" ~> seqPhase = "idle")
    /\ (seqPhase = "waiting" ~> ~loading)
====
